---------------------------- MODULE Spec2Model ----------------------------
(***************************************************************************)
(* Model of the analytics core of the HR dashboard: the recurrence views   *)
(* (get_upcoming_birthdays, get_work_anniversaries), the staleness view    *)
(* (get_outdated_certifications) with its severity banding, and the        *)
(* turnover model (prepare_ml_features, train_turnover_model,              *)
(* predict_turnover_risk).                                                 *)
(*                                                                         *)
(* Time.  A pandas Timestamp is modelled as an integer number of ticks:    *)
(* ordinal day * TicksPerDay + time of day.  A date column holds midnight  *)
(* timestamps; datetime.now() carries a time of day.  NaT is the value     *)
(* NaT, which compares False with everything, as in pandas.                *)
(***************************************************************************)
EXTENDS Integers, Sequences, FiniteSets, TLC

\* ------------------------------------------------------------ bounds
\* Largest number of rows of the record store.
MaxRecords == 2
\* Resolution of the time of day: ticks in one day.
TicksPerDay == 2

\* ------------------------------------------------------------ calendar
\* A calendar date is a record [y, m, d]; NoDate stands for a missing cell.
NoDate == [y |-> 0, m |-> 0, d |-> 0]
\* The missing timestamp (pandas NaT).
NaT == -1

Date(y, m, d) == [y |-> y, m |-> m, d |-> d]

IsLeap(y) == (y % 4 = 0 /\ y % 100 # 0) \/ y % 400 = 0

DaysInMonth(y, m) ==
    CASE m \in {1, 3, 5, 7, 8, 10, 12} -> 31
      [] m \in {4, 6, 9, 11} -> 30
      [] OTHER -> IF IsLeap(y) THEN 29 ELSE 28

RECURSIVE DaysBeforeMonth(_, _)
DaysBeforeMonth(y, m) ==
    IF m = 1 THEN 0 ELSE DaysBeforeMonth(y, m - 1) + DaysInMonth(y, m - 1)

\* Proleptic Gregorian ordinal of a valid date (day 1 is 0001-01-01).
Ordinal(dt) ==
    LET py == dt.y - 1
    IN  365 * py + (py \div 4) - (py \div 100) + (py \div 400)
          + DaysBeforeMonth(dt.y, dt.m) + dt.d

\* Midnight timestamp of a date column cell; a missing cell is NaT.
Midnight(dt) == IF dt = NoDate THEN NaT ELSE Ordinal(dt) * TicksPerDay

\* Series.dt.strftime(f"{year}-%m-%d"): the year is literal text of the
\* format, month and day come from the cell; a NaT cell formats to NaN,
\* represented by NoDate.
Strftime(dt, year) == IF dt = NoDate THEN NoDate ELSE Date(year, dt.m, dt.d)

\* Whether pd.to_datetime accepts the text: NaN parses to NaT, a text
\* naming a day the month does not have raises.
Parses(s) ==
    s = NoDate \/ (s.m \in 1..12 /\ s.d \in 1..DaysInMonth(s.y, s.m))

\* pd.to_datetime of a text that parses.
ToDatetime(s) == Midnight(s)

\* pd.to_datetime of a cell that already holds a timestamp: the cell itself.
Reparse(t) == t

\* Mutants of the strict comparison: a non-strict one, and a reversed one.
TsLtOrEqual(a, b) == a # NaT /\ b # NaT /\ a <= b
TsLtReversed(a, b) == a # NaT /\ b # NaT /\ a > b

\* Timestamp comparisons; NaT compares False.
TsLt(a, b) == a # NaT /\ b # NaT /\ a < b
TsLe(a, b) == a # NaT /\ b # NaT /\ a <= b

\* today + pd.Timedelta(days = n)
PlusDays(ts, n) == ts + n * TicksPerDay

\* (a - b).days: whole days, rounded down.
DaysBetween(a, b) == (a - b) \div TicksPerDay


\* ------------------------------------------------------------ cells and frames
\* A nullable cell (a number, a text): <<>> is NaN, <<v>> holds v.
NaN == <<>>
Val(v) == <<v>>
IsNa(c) == c = NaN

\* Column positions of a frame with n rows.
Rows(frame) == 1..Len(frame)

\* frame[mask]: the rows where the boolean column holds, in frame order.
RECURSIVE BoolIndex(_, _)
BoolIndex(frame, mask) ==
    IF frame = <<>> THEN <<>>
    ELSE LET rest == BoolIndex(Tail(frame), Tail(mask))
         IN  IF Head(mask) THEN <<Head(frame)>> \o rest ELSE rest

\* The orders in which keys a, b may follow each other in a sorted column;
\* missing keys go last whatever the direction (na_position = "last").
KeyOrdered(a, b, ascending) ==
    \/ IsNa(b)
    \/ /\ ~IsNa(a)
       /\ IF ascending THEN a[1] <= b[1] ELSE a[1] >= b[1]

\* The permutations of 1..n.
Perms(n) ==
    {p \in [1..n -> 1..n] : \A i, j \in 1..n : p[i] = p[j] => i = j}

\* Mutant: the frame is handed back in the order it came in.
SortValuesSkipped(frame, keys, ascending) == {frame}

\* DataFrame.sort_values(column, ascending): the frames the call may return.
\* The default sort kind is quicksort, which does not fix the relative
\* order of rows with equal keys, so every ordering of ties is possible.
\* The rows with a missing key are not sorted: they are appended in the
\* order they came in.
SortValues(frame, keys, ascending) ==
    {[i \in Rows(frame) |-> frame[p[i]]] :
        p \in {q \in Perms(Len(frame)) :
                 \A i \in 1..(Len(frame) - 1) :
                     /\ KeyOrdered(keys[q[i]], keys[q[i + 1]], ascending)
                     /\ (IsNa(keys[q[i]]) /\ IsNa(keys[q[i + 1]])) => q[i] < q[i + 1]}}

\* A timestamp column cell as a sort key.
TsKey(t) == IF t = NaT THEN NaN ELSE Val(t)

\* ------------------------------------------------------------ clock
\* datetime.now(): a calendar date and a time of day in ticks.
YearOf(today) == today.date.y
Ts(today) == Ordinal(today.date) * TicksPerDay + today.tod

\* ------------------------------------------------------------ filters
\* Mutant: the status filter is left out.
ActiveRowsUnfiltered(df) == df

\* df[df["status_funcionario"] == "Ativo"].copy()
ActiveRows(df) ==
    BoolIndex(df, [i \in Rows(df) |-> df[i].status_funcionario = "Ativo"])

\* if dept_filter != "all": keep the rows of that department
DeptRows(frame, dept_filter) ==
    IF dept_filter # "all"
    THEN BoolIndex(frame, [i \in Rows(frame) |-> frame[i].departamento = Val(dept_filter)])
    ELSE frame

\* The value a view hands back when an exception leaves it.
Raised == [ok |-> FALSE, rows |-> <<>>]
Returned(rows) == [ok |-> TRUE, rows |-> rows]

\* ------------------------------------------------------------ frames as objects
\* Frames are objects: a name refers to one, and an assignment to a column
\* changes the object every name of it sees.  StoreRef is the object the
\* callers pass in; an operation that makes a frame gives a reference the
\* store does not have.
StoreRef == 0

\* Mutant: .copy() left out, the name refers to the frame it was given.
CopyAliased(ref) == ref

\* DataFrame.copy(): a new object.
Copy(ref) == ref + 1
\* frame[mask]: a new object.
Indexed(ref) == ref + 1

\* A column assignment: the object written and the columns assigned.
Write(target, columns) == [target |-> target, columns |-> columns]

\* get_filtered_data(df, ...): filtered_df is a copy, re-bound to selections
\* of itself; no column is assigned.
GetFilteredDataWrites(df) == {}

\* The frame active_df names after the status and department selections.
ActiveFrame(df, dept_filter) ==
    IF dept_filter # "all"
    THEN Copy(Indexed(Copy(Indexed(df))))
    ELSE Copy(Indexed(df))

GetUpcomingBirthdaysWrites(df, dept_filter) ==
    {Write(ActiveFrame(df, dept_filter), {"birthday_this_year"})}
GetWorkAnniversariesWrites(df, dept_filter) ==
    {Write(ActiveFrame(df, dept_filter), {"anniversary_this_year"})}
GetOutdatedCertificationsWrites(df, dept_filter) ==
    {Write(Copy(Indexed(ActiveFrame(df, dept_filter))), {"dias_sem_treinamento"})}

\* ml_df = data.copy(); the derived columns, the target and the imputed
\* feature columns are assigned to ml_df.
PrepareMlFeaturesWrites(data) ==
    {Write(Copy(data),
           {"idade_normalizada", "salario_normalizado", "anos_servico_normalizado",
            "departamento_encoded", "target", "horas_treinamento_ano",
            "dias_ausencia_mes", "acidentes_trabalho", "uso_epi_score",
            "avaliacao_performance"})}
TrainTurnoverModelWrites(data) == PrepareMlFeaturesWrites(data)
PredictTurnoverRiskWrites(data) ==
    TrainTurnoverModelWrites(data)
      \cup PrepareMlFeaturesWrites(Copy(Indexed(data)))
      \cup {Write(Copy(Indexed(data)), {"risk_score", "risk_level"})}

\* The frame the store refers to after the writes of an operation: the
\* columns assigned through a reference to it hold what was assigned.
StoreAfter(frame, writes) ==
    LET columns == UNION {w.columns : w \in {v \in writes : v.target = StoreRef}}
    IN  IF columns = {} THEN frame
        ELSE [i \in Rows(frame) |-> [c \in columns |-> "assigned"] @@ frame[i]]

\* ------------------------------------------------------------ get_filtered_data
\* get_filtered_data(df, dept_filter, status_filter)
GetFilteredData(df, dept_filter, status_filter) ==
    LET by_dept == DeptRows(df, dept_filter)
    IN  IF status_filter # "all"
        THEN BoolIndex(by_dept, [i \in Rows(by_dept) |->
                                   by_dept[i].status_funcionario = status_filter])
        ELSE by_dept

\* ------------------------------------------------------------ get_upcoming_birthdays
\* The possible outcomes of get_upcoming_birthdays(df, days_ahead, dept_filter)
\* when datetime.now() reads today.
GetUpcomingBirthdays(df, today, days_ahead, dept_filter) ==
    LET active_df == DeptRows(ActiveRows(df), dept_filter)
        n == Len(active_df)
        \* strftime(f"{today.year}-%m-%d"), then pd.to_datetime
        text1 == [i \in 1..n |-> Strftime(active_df[i].data_nascimento, YearOf(today))]
        col1 == [i \in 1..n |-> ToDatetime(text1[i])]
        \* rows whose birthday already passed: text of next year's date
        mask1 == [i \in 1..n |-> TsLt(col1[i], Ts(today))]
        text2 == [i \in 1..n |-> Strftime(active_df[i].data_nascimento, YearOf(today) + 1)]
        \* the texts are written into the datetime column: parsed on the way
        col2 == [i \in 1..n |-> IF mask1[i] THEN ToDatetime(text2[i]) ELSE col1[i]]
        \* second masked pass: pd.to_datetime over cells that are timestamps
        mask2 == [i \in 1..n |-> TsLt(col2[i], Ts(today))]
        col3 == [i \in 1..n |-> IF mask2[i] THEN Reparse(col2[i]) ELSE col2[i]]
        end_date == PlusDays(Ts(today), days_ahead)
        keep == [i \in 1..n |-> TsLe(col3[i], end_date)]
        withcol == [i \in 1..n |->
                      [idx |-> active_df[i].idx,
                       departamento |-> active_df[i].departamento,
                       data_nascimento |-> active_df[i].data_nascimento,
                       idade |-> active_df[i].idade,
                       birthday_this_year |-> col3[i]]]
        upcoming == BoolIndex(withcol, keep)
        keys == [i \in Rows(upcoming) |-> TsKey(upcoming[i].birthday_this_year)]
    IN  IF \E i \in 1..n : ~Parses(text1[i])
        THEN {Raised}      \* pd.to_datetime raises on a day the year lacks
        ELSE IF \E i \in 1..n : mask1[i] /\ ~Parses(text2[i])
        THEN {Raised}      \* the column turns to text; comparing it with today raises
        ELSE {Returned(f) : f \in SortValues(upcoming, keys, TRUE)}

\* ------------------------------------------------------------ get_work_anniversaries
\* Mutant: the anniversaries are looked for on the birth dates.
GetWorkAnniversariesFromBirth(df, today, days_ahead, dept_filter) ==
    {[ok |-> res.ok,
      rows |-> [i \in Rows(res.rows) |->
                  [idx |-> res.rows[i].idx,
                   departamento |-> res.rows[i].departamento,
                   data_admissao |-> df[res.rows[i].idx].data_admissao,
                   anos_servico |-> df[res.rows[i].idx].anos_servico,
                   anniversary_this_year |-> res.rows[i].birthday_this_year]]] :
        res \in GetUpcomingBirthdays(df, today, days_ahead, dept_filter)}

GetWorkAnniversaries(df, today, days_ahead, dept_filter) ==
    LET active_df == DeptRows(ActiveRows(df), dept_filter)
        n == Len(active_df)
        text1 == [i \in 1..n |-> Strftime(active_df[i].data_admissao, YearOf(today))]
        col1 == [i \in 1..n |-> ToDatetime(text1[i])]
        mask1 == [i \in 1..n |-> TsLt(col1[i], Ts(today))]
        text2 == [i \in 1..n |-> Strftime(active_df[i].data_admissao, YearOf(today) + 1)]
        col2 == [i \in 1..n |-> IF mask1[i] THEN ToDatetime(text2[i]) ELSE col1[i]]
        mask2 == [i \in 1..n |-> TsLt(col2[i], Ts(today))]
        col3 == [i \in 1..n |-> IF mask2[i] THEN Reparse(col2[i]) ELSE col2[i]]
        end_date == PlusDays(Ts(today), days_ahead)
        keep == [i \in 1..n |-> TsLe(col3[i], end_date)]
        withcol == [i \in 1..n |->
                      [idx |-> active_df[i].idx,
                       departamento |-> active_df[i].departamento,
                       data_admissao |-> active_df[i].data_admissao,
                       anos_servico |-> active_df[i].anos_servico,
                       anniversary_this_year |-> col3[i]]]
        upcoming == BoolIndex(withcol, keep)
        keys == [i \in Rows(upcoming) |-> TsKey(upcoming[i].anniversary_this_year)]
    IN  IF \E i \in 1..n : ~Parses(text1[i])
        THEN {Raised}
        ELSE IF \E i \in 1..n : mask1[i] /\ ~Parses(text2[i])
        THEN {Raised}
        ELSE {Returned(f) : f \in SortValues(upcoming, keys, TRUE)}

\* ------------------------------------------------------------ get_outdated_certifications
\* (today - ultimo_treinamento).dt.days; NaT gives NaN.
DaysSince(today, dt) ==
    IF dt = NoDate THEN NaN ELSE Val(DaysBetween(Ts(today), Midnight(dt)))

GetOutdatedCertifications(df, today, dept_filter) ==
    LET active_df == DeptRows(ActiveRows(df), dept_filter)
        \* only the rows whose certification cell is not missing
        certified_df == BoolIndex(active_df,
            [i \in Rows(active_df) |-> ~IsNa(active_df[i].certificacoes_seguranca)])
        withcol == [i \in Rows(certified_df) |->
                      [idx |-> certified_df[i].idx,
                       departamento |-> certified_df[i].departamento,
                       certificacoes_seguranca |-> certified_df[i].certificacoes_seguranca,
                       ultimo_treinamento |-> certified_df[i].ultimo_treinamento,
                       dias_sem_treinamento |->
                           DaysSince(today, certified_df[i].ultimo_treinamento),
                       horas_treinamento_ano |-> certified_df[i].horas_treinamento_ano]]
        keys == [i \in Rows(withcol) |-> withcol[i].dias_sem_treinamento]
    IN  {Returned(f) : f \in SortValues(withcol, keys, FALSE)}


\* ------------------------------------------------------------ update_certifications_content
\* Mutant: the critical band starts at 365 days instead of after them.
CellColourFrom365(days) ==
    IF days >= 365 THEN "red" ELSE IF days > 180 THEN "orange" ELSE "green"

\* The colour of the days cell of a table row.
CellColour(days) ==
    IF days > 365 THEN "red" ELSE IF days > 180 THEN "orange" ELSE "green"

\* The background of a table row.
RowBackground(days) ==
    IF days > 365 THEN "#ffebee" ELSE IF days > 180 THEN "#fff3e0" ELSE "#e8f5e8"

\* Whether building a table row raises: NaT has no strftime, and int() of a
\* missing number raises.
RowRaises(row) ==
    \/ row.ultimo_treinamento = NoDate
    \/ IsNa(row.dias_sem_treinamento)
    \/ IsNa(row.horas_treinamento_ano)

\* The page the callback builds from the helper's rows, or no page when
\* building a row raises.
NoPage == [shown |-> FALSE, table |-> <<>>]
RenderCertifications(rows) ==
    IF \E i \in Rows(rows) : RowRaises(rows[i])
    THEN NoPage
    ELSE [shown |-> TRUE,
          table |-> [i \in Rows(rows) |->
                       [idx |-> rows[i].idx,
                        dias |-> rows[i].dias_sem_treinamento[1],
                        color |-> CellColour(rows[i].dias_sem_treinamento[1]),
                        backgroundColor |->
                            RowBackground(rows[i].dias_sem_treinamento[1])]]]

\* ------------------------------------------------------------ update_birthdays_content, update_anniversaries_content
\* The page a recurrence callback builds from the helper's outcome: no page
\* when the helper raised, else one table row per returned row, whose days
\* cell is (occurrence - datetime.now()).days with the clock read again for
\* that row; later[i] is the reading for row i, and column the name of the
\* next-occurrence column.
RenderRecurrence(res, column, later) ==
    IF ~res.ok THEN NoPage
    ELSE [shown |-> TRUE,
          table |-> [i \in Rows(res.rows) |->
                       [idx |-> res.rows[i].idx,
                        dias |-> DaysBetween(res.rows[i][column], later[i])]]]

\* ------------------------------------------------------------ numbers
\* Column arithmetic is exact: a number is a reduced fraction <<n, d>>, d > 0.
Abs(n) == IF n < 0 THEN -n ELSE n

RECURSIVE Gcd(_, _)
Gcd(a, b) == IF b = 0 THEN a ELSE Gcd(b, a % b)

Rat(n, d) == LET g == Gcd(Abs(n), d) IN <<n \div g, d \div g>>
RatAdd(a, b) == Rat(a[1] * b[2] + b[1] * a[2], a[2] * b[2])
\* a / b for b > 0
RatDiv(a, b) == Rat(a[1] * b[2], a[2] * b[1])
RatLe(a, b) == a[1] * b[2] <= b[1] * a[2]

\* A column of a frame, and a store cell (an integer or NaN) as a number.
ColumnOf(frame, name) == [i \in Rows(frame) |-> frame[i][name]]
Num(c) == IF IsNa(c) THEN NaN ELSE Val(Rat(c[1], 1))

\* The positions of a column that hold a value.
Present(col) == {i \in DOMAIN col : ~IsNa(col[i])}

RECURSIVE SumCol(_)
SumCol(col) ==
    IF col = <<>> THEN Rat(0, 1)
    ELSE IF IsNa(Head(col)) THEN SumCol(Tail(col))
    ELSE RatAdd(Head(col)[1], SumCol(Tail(col)))

\* Mutant: the first value of the column instead of its largest.
ColMaxFirst(col) ==
    IF Present(col) = {} THEN NaN
    ELSE col[CHOOSE i \in Present(col) : \A j \in Present(col) : i <= j]

\* Series.max() and Series.mean(): missing cells are skipped; a column with
\* no value gives NaN.
ColMax(col) ==
    IF Present(col) = {} THEN NaN
    ELSE Val(col[CHOOSE i \in Present(col) :
                   \A j \in Present(col) : RatLe(col[j][1], col[i][1])][1])
ColMean(col) ==
    IF Present(col) = {} THEN NaN
    ELSE Val(RatDiv(SumCol(col), Rat(Cardinality(Present(col)), 1)))

\* cell / divisor on floats: NaN if either is missing, and 0 / 0 is NaN (the
\* inputs are not negative, so a zero maximum divides only zero cells).
CellDiv(c, m) ==
    IF IsNa(c) \/ IsNa(m) THEN NaN
    ELSE IF m[1][1] = 0 THEN NaN
    ELSE Val(RatDiv(c[1], m[1]))

\* Mutant: a missing cell becomes 0.
FillNaZero(col) ==
    [i \in DOMAIN col |-> IF IsNa(col[i]) THEN Val(Rat(0, 1)) ELSE col[i]]

\* Series.fillna(Series.mean())
FillNa(col) ==
    LET mean == ColMean(col)
    IN  [i \in DOMAIN col |-> IF IsNa(col[i]) THEN mean ELSE col[i]]

\* Series.unique(): the distinct cells in first-seen order.
Unique(col) ==
    LET first == {i \in DOMAIN col : \A j \in 1..(i - 1) : col[j] # col[i]}
    IN  [k \in 1..Cardinality(first) |->
           col[CHOOSE i \in first : Cardinality({j \in first : j < i}) = k - 1]]

\* ------------------------------------------------------------ prepare_ml_features
feature_columns ==
    << "idade_normalizada", "salario_normalizado", "anos_servico_normalizado",
       "departamento_encoded", "horas_treinamento_ano", "dias_ausencia_mes",
       "acidentes_trabalho", "uso_epi_score", "avaliacao_performance" >>
FeatureNames == {feature_columns[k] : k \in DOMAIN feature_columns}

\* Mutant: every department gets code 0.
DeptCodeZero(mapping, dept) == Val(Rat(0, 1))

\* dept_mapping as the sequence of departments seen: the code of a department
\* is its position in it, counted from 0.
DeptCode(mapping, dept) ==
    Val(Rat((CHOOSE j \in DOMAIN mapping : mapping[j] = dept) - 1, 1))

\* Mutant: the Active records are the positive ones.
TargetActive(status) == IF status = "Ativo" THEN 1 ELSE 0

\* (status_funcionario == "Desligado").astype(int)
Target(status) == IF status = "Desligado" THEN 1 ELSE 0

\* prepare_ml_features(data): the feature table (one row per input row: its
\* label idx, its target and its nine feature cells), the feature columns
\* and the department mapping.
PrepareMlFeatures(data) ==
    LET n == Len(data)
        num(name) == [i \in 1..n |-> Num(data[i][name])]
        idade == num("idade")
        salario == num("salario")
        anos == num("anos_servico")
        dept_mapping == Unique(ColumnOf(data, "departamento"))
        raw == [c \in FeatureNames |->
                 CASE c = "idade_normalizada" ->
                        [i \in 1..n |-> CellDiv(idade[i], Val(Rat(100, 1)))]
                   [] c = "salario_normalizado" ->
                        LET max == ColMax(salario)
                        IN  [i \in 1..n |-> CellDiv(salario[i], max)]
                   [] c = "anos_servico_normalizado" ->
                        LET max == ColMax(anos)
                        IN  [i \in 1..n |-> CellDiv(anos[i], max)]
                   [] c = "departamento_encoded" ->
                        [i \in 1..n |-> DeptCode(dept_mapping, data[i].departamento)]
                   [] OTHER -> num(c)]
        filled == [c \in FeatureNames |-> FillNa(raw[c])]
    IN  [ml_df |-> [i \in 1..n |->
                      [idx |-> data[i].idx,
                       target |-> Target(data[i].status_funcionario),
                       x |-> [c \in FeatureNames |-> filled[c][i]]]],
         feature_columns |-> feature_columns,
         dept_mapping |-> dept_mapping]

\* ------------------------------------------------------------ train_turnover_model
\* Python's None, and a value that is not None.
None == <<>>
Some(v) == <<v>>

\* ceil(0.2 * n): the size of the test partition.
TestSize(n) == (n + 4) \div 5

\* train_test_split(X, y, test_size = 0.2, stratify = y) raises ValueError
\* when the train partition would be empty, when a label has a single
\* member, and when a partition is smaller than the number of labels.
SplitRaises(y) ==
    LET n == Len(y)
        n_test == TestSize(n)
        n_train == n - n_test
        classes == {y[i] : i \in DOMAIN y}
        count(c) == Cardinality({i \in DOMAIN y : y[i] = c})
    IN  \/ n_train = 0
        \/ \E c \in classes : count(c) < 2
        \/ n_train < Cardinality(classes)
        \/ n_test < Cardinality(classes)

\* Whether a feature table holds a missing cell.
HasNaN(ml_df) == \E i \in Rows(ml_df) : \E c \in FeatureNames : IsNa(ml_df[i].x[c])

\* The body of the try block: the set of its outcomes, each either an
\* exception or the four values returned (y is the target column the body
\* worked on).  A forest fitted on data of one
\* label knows that label alone.  Whether fit accepts a missing cell depends
\* on the library build: both outcomes are possible.
TrainBody(data) ==
    LET prep == PrepareMlFeatures(data)
        y == [i \in Rows(prep.ml_df) |-> prep.ml_df[i].target]
        fitted == [exception |-> FALSE, y |-> y,
                   model |-> Some([classes |-> {y[i] : i \in DOMAIN y}]),
                   feature_importance |-> Some(FeatureNames),
                   dept_mapping |-> Some(prep.dept_mapping),
                   feature_columns |-> Some(prep.feature_columns)]
        thrown == [exception |-> TRUE, y |-> y,
                   model |-> None, feature_importance |-> None,
                   dept_mapping |-> None, feature_columns |-> None]
    IN  IF SplitRaises(y) THEN {thrown}
        ELSE IF HasNaN(prep.ml_df) THEN {thrown, fitted}
        ELSE {fitted}

\* Mutant: no except clause, the exception leaves the function.
TrainUncaught(data) == TrainBody(data)

\* train_turnover_model(data): except Exception turns every exception of the
\* body into (None, None, None, None).
TrainTurnoverModel(data) ==
    {IF o.exception THEN [o EXCEPT !.exception = FALSE] ELSE o : o \in TrainBody(data)}

\* ------------------------------------------------------------ predict_turnover_risk
\* Probabilities are counted in hundredths: 25 is 0.25.
bins == <<0, 25, 50, 100>>
labels == <<"Baixo", "Médio", "Alto">>

\* bins.searchsorted(x, side = "left"): how many edges lie below x.
SearchSorted(x) == Cardinality({k \in DOMAIN bins : bins[k] < x})

\* pd.cut(x, bins, labels): intervals open on the left and closed on the
\* right; a value on or below the first edge, or above the last, gets NaN.
Cut(x) ==
    IF SearchSorted(x) = 0 \/ SearchSorted(x) = Len(bins)
    THEN NaN ELSE Val(labels[SearchSorted(x)])

\* Probabilities a fitted forest may give to a row.
ScoreValues == {0, 25, 26, 50, 51, 100}

\* The outcomes of predict_turnover_risk(data): an exception that leaves the
\* function, (None, None), or the Active rows with risk_score and risk_level
\* (X is the feature frame the scores were computed from).
\* predict_proba raises on a frame with no rows, may raise on a missing cell
\* (library build), and has a single column, so that [:, 1] raises, when the
\* forest knows one label.  The forest is a function of the feature cells:
\* rows with equal features get equal probabilities.
PredictTurnoverRisk(data) ==
    UNION {
      IF t.model = None
      THEN {[exception |-> FALSE, none |-> TRUE, rows |-> <<>>, X |-> <<>>]}
      ELSE
        LET active_df == ActiveRows(data)
            ml_df == PrepareMlFeatures(active_df).ml_df
            X == {ml_df[i].x : i \in Rows(ml_df)}
            thrown == [exception |-> TRUE, none |-> FALSE, rows |-> <<>>, X |-> <<>>]
            scored == {[exception |-> FALSE, none |-> FALSE,
                        X |-> [i \in Rows(ml_df) |-> ml_df[i].x],
                        rows |-> [i \in Rows(active_df) |->
                                    [idx |-> active_df[i].idx,
                                     status_funcionario |->
                                         active_df[i].status_funcionario,
                                     risk_score |-> proba[ml_df[i].x],
                                     risk_level |-> Cut(proba[ml_df[i].x])]]]
                         : proba \in [X -> ScoreValues]}
        IN  IF Len(active_df) = 0 \/ Cardinality(t.model[1].classes) < 2
            THEN {thrown}
            ELSE IF HasNaN(ml_df) THEN {thrown} \cup scored
            ELSE scored
      : t \in TrainTurnoverModel(data) }

\* ------------------------------------------------------------ state
VARIABLES
    store,   \* df: the loaded record table, a sequence of rows
    now,     \* the reading datetime.now() gives during this request
    view,    \* the last view request: the helper's result and, for the
             \* staleness view, the table the callback built from it
    ml,      \* the last training / scoring call and what it returned
    csv      \* the rows read_csv gave, and how far the load has got

vars == <<store, now, view, ml, csv>>

\* ------------------------------------------------------------ derived columns
\* (today - column).dt.days // 365 and (today - column).dt.days / 365.25,
\* the latter as a fraction; NaT gives NaN.
Idade(today, born) ==
    IF born = NoDate THEN NaN
    ELSE Val(DaysBetween(Ts(today), Midnight(born)) \div 365)
AnosServico(today, hired) ==
    IF hired = NoDate THEN NaN
    ELSE Val(Rat(DaysBetween(Ts(today), Midnight(hired)) * 4, 1461))

\* The frame with the idade and anos_servico columns the load derives when
\* the clock reads today.
WithDerived(frame, today) ==
    [i \in Rows(frame) |->
        [idade |-> Idade(today, frame[i].data_nascimento),
         anos_servico |-> AnosServico(today, frame[i].data_admissao)] @@ frame[i]]

\* ------------------------------------------------------------ input spaces
Departments == {"Obras", "Engenharia"}
Statuses == {"Ativo", "Desligado"}
\* Filters the callers ask for: every department, or one of them.
DeptFilters == {"all", "Obras"}

\* A reading of the clock.
Reading(y, m, d, tod) == [date |-> Date(y, m, d), tod |-> tod]

\* Birth and hire dates of the rows of a store (data_nascimento, data_admissao).
DateProfiles ==
    { [data_nascimento |-> Date(1990, 3, 15), data_admissao |-> Date(2020, 2, 29)],
      [data_nascimento |-> Date(1992, 2, 29), data_admissao |-> Date(2018, 3, 15)] }

\* Certification text and last training date of the rows of a store.  The
\* empty text is a cell of a frame a caller builds: read_csv gives NaN for an
\* empty field.
CertProfile(cert, last, hours) ==
    [certificacoes_seguranca |-> cert, ultimo_treinamento |-> last,
     horas_treinamento_ano |-> hours]
CertProfiles ==
    { CertProfile(Val("NR-35"), Date(2022, 1, 1), Val(40)),
      CertProfile(Val("NR-10"), Date(2023, 9, 1), Val(16)),
      CertProfile(Val("NR-10"), Date(2023, 9, 1), NaN),
      CertProfile(Val("NR-35"), NoDate, Val(40)),
      CertProfile(NaN, Date(2022, 1, 1), Val(40)),
      CertProfile(Val(""), Date(2023, 9, 1), Val(16)) }

\* Readings of the clock around the band limits: 180, 181, 365, 366 and 730
\* days after the first training date above.
CertNows ==
    { Reading(2022, 6, 30, 1), Reading(2022, 7, 1, 0), Reading(2023, 1, 1, 1),
      Reading(2023, 1, 2, 0),  Reading(2024, 1, 1, 0), Reading(2024, 1, 1, 1) }

\* Readings of the clock: a leap and a non-leap year, days before, on and
\* after the dates above, at midnight and later in the day.
Nows ==
    { Reading(2023, 3, 15, 1), Reading(2023, 12, 20, 1),
      Reading(2024, 2, 1, 1),  Reading(2024, 3, 1, 0),
      Reading(2024, 3, 1, 1),  Reading(2024, 3, 15, 0) }

\* Windows the callers ask for.
DaysAheadChoices == {0, 14, 366}

\* Ticks that pass between the helper's reading of the clock and a reading
\* taken while the table is built.
RenderDelays == {0, 1}

\* The readings of the clock taken for the n rows of a table, none before
\* the helper's reading today and none before an earlier row's.
LaterReadings(today, n) ==
    { [i \in 1..n |-> Ts(today) + d[i]] :
        d \in {e \in [1..n -> RenderDelays] :
                  \A i, j \in 1..n : i <= j => e[i] <= e[j]} }

DefaultDates == [data_nascimento |-> Date(1990, 3, 15), data_admissao |-> Date(2015, 1, 5)]
DefaultCert == CertProfile(Val("NR-35"), Date(2022, 1, 1), Val(40))

\* The tables of at most MaxRecords rows whose rows are drawn from rowspace;
\* idx is the row label of the frame index.
Tables(rowspace) ==
    UNION { { [i \in 1..n |-> [idx |-> i] @@ f[i]] : f \in [1..n -> rowspace] }
            : n \in 0..MaxRecords }

\* Status and department of the rows of a store: an Active row of either
\* department, and a Terminated row of the department the callers filter on.
StatusAndDepartment ==
    { sd \in Statuses \X Departments : sd[1] = "Ativo" \/ sd[2] = "Obras" }

DateRowSpace ==
    { [status_funcionario |-> sd[1], departamento |-> Val(sd[2])] @@ p @@ DefaultCert
        : sd \in StatusAndDepartment, p \in DateProfiles }

CertRowSpace ==
    { [status_funcionario |-> sd[1], departamento |-> Val(sd[2])] @@ DefaultDates @@ p
        : sd \in StatusAndDepartment, p \in CertProfiles }

NoView == [op |-> "none", days_ahead |-> 0, dept_filter |-> "all",
           ok |-> TRUE, rows |-> <<>>, page |-> NoPage]
NoMl == [op |-> "none"]
\* The load is over; the rows it read are not looked at again.
NoCsv == [rows |-> <<>>, phase |-> "loaded"]

\* ------------------------------------------------------------ actions
\* The callbacks are registered after the module-level load: none runs
\* before it has succeeded.
\* update_birthdays_content: one call of get_upcoming_birthdays, then the
\* table built from its rows
UpcomingBirthdays ==
    /\ csv.phase = "loaded"
    /\ \E days_ahead \in DaysAheadChoices, dept_filter \in DeptFilters :
      \E res \in GetUpcomingBirthdays(store, now, days_ahead, dept_filter) :
       \E later \in LaterReadings(now, Len(res.rows)) :
        /\ view' = [op |-> "birthdays", days_ahead |-> days_ahead,
                    dept_filter |-> dept_filter, ok |-> res.ok, rows |-> res.rows,
                    page |-> RenderRecurrence(res, "birthday_this_year", later)]
        /\ store' = StoreAfter(store, GetUpcomingBirthdaysWrites(StoreRef, dept_filter))
        /\ UNCHANGED <<now, ml, csv>>

\* update_anniversaries_content: one call of get_work_anniversaries, then
\* the table built from its rows
WorkAnniversaries ==
    /\ csv.phase = "loaded"
    /\ \E days_ahead \in DaysAheadChoices, dept_filter \in DeptFilters :
      \E res \in GetWorkAnniversaries(store, now, days_ahead, dept_filter) :
       \E later \in LaterReadings(now, Len(res.rows)) :
        /\ view' = [op |-> "anniversaries", days_ahead |-> days_ahead,
                    dept_filter |-> dept_filter, ok |-> res.ok, rows |-> res.rows,
                    page |-> RenderRecurrence(res, "anniversary_this_year", later)]
        /\ store' = StoreAfter(store, GetWorkAnniversariesWrites(StoreRef, dept_filter))
        /\ UNCHANGED <<now, ml, csv>>

\* update_certifications_content: one call of get_outdated_certifications,
\* then the table built from its rows
OutdatedCertifications ==
    /\ csv.phase = "loaded"
    /\ \E dept_filter \in DeptFilters :
      \E res \in GetOutdatedCertifications(store, now, dept_filter) :
        /\ view' = [op |-> "certifications", days_ahead |-> 0,
                    dept_filter |-> dept_filter, ok |-> res.ok, rows |-> res.rows,
                    page |-> RenderCertifications(res.rows)]
        /\ store' = StoreAfter(store,
                             GetOutdatedCertificationsWrites(StoreRef, dept_filter))
        /\ UNCHANGED <<now, ml, csv>>

\* ------------------------------------------------------------ specifications
\* The reporting views over stores whose birth and hire dates vary.
Init ==
    /\ now \in Nows
    /\ \E frame \in Tables(DateRowSpace) : store = WithDerived(frame, now)
    /\ view = NoView
    /\ ml = NoMl
    /\ csv = NoCsv

Next == UpcomingBirthdays \/ WorkAnniversaries \/ OutdatedCertifications

Spec == Init /\ [][Next]_vars

\* The staleness view over stores whose certification data vary.
InitCert ==
    /\ store \in Tables(CertRowSpace)
    /\ now \in CertNows
    /\ view = NoView
    /\ ml = NoMl
    /\ csv = NoCsv

NextCert == OutdatedCertifications

SpecCert == InitCert /\ [][NextCert]_vars


\* ------------------------------------------------------------ claims: recurrence views
RecurrenceOps == {"birthdays", "anniversaries"}

\* The next-occurrence cell and the source date of a returned row.
Occurrence(row) ==
    IF view.op = "birthdays" THEN row.birthday_this_year ELSE row.anniversary_this_year
SourceDate(row) ==
    IF view.op = "birthdays" THEN row.data_nascimento ELSE row.data_admissao
StoreSourceDate(r) ==
    IF view.op = "birthdays" THEN r.data_nascimento ELSE r.data_admissao

\* The calendar year a timestamp lies in.
YearOfTs(t) ==
    CHOOSE y \in (YearOf(now) - 2)..(YearOf(now) + 3) :
        /\ Ordinal(Date(y, 1, 1)) * TicksPerDay <= t
        /\ t < Ordinal(Date(y + 1, 1, 1)) * TicksPerDay

\* The month/day of dt has already passed this year relative to now: its
\* midnight lies strictly before the reading of the clock.
AlreadyPassed(dt) ==
    \/ dt.m < now.date.m
    \/ dt.m = now.date.m /\ dt.d < now.date.d
    \/ dt.m = now.date.m /\ dt.d = now.date.d /\ now.tod > 0

\* C1: the next-occurrence year of every returned row is now.year + 1 when
\* the row's month/day has already passed this year relative to now (its
\* this-year candidate lies strictly before now), and now.year otherwise.
C1_OccurrenceYear ==
    (view.op \in RecurrenceOps /\ view.ok) =>
        \A i \in Rows(view.rows) :
            YearOfTs(Occurrence(view.rows[i])) =
                IF AlreadyPassed(SourceDate(view.rows[i]))
                THEN YearOf(now) + 1 ELSE YearOf(now)

\* A view returned a row kept in this year whose candidate is exactly now:
\* the candidate is not strictly before now, so no roll-over is taken.
C1_Witness ==
    /\ view.op \in RecurrenceOps /\ view.ok
    /\ \E i \in Rows(view.rows) :
        /\ YearOfTs(Occurrence(view.rows[i])) = YearOf(now)
        /\ Occurrence(view.rows[i]) = Ts(now)

\* now plus one calendar year: the same month, day and time of day next
\* year, the 29th of February clamped to the 28th.
PlusOneYear(today) ==
    LET y == today.date.y + 1
        d == IF today.date.d > DaysInMonth(y, today.date.m)
             THEN DaysInMonth(y, today.date.m) ELSE today.date.d
    IN  Ordinal(Date(y, today.date.m, d)) * TicksPerDay + today.tod

\* C2: the next occurrence of every returned row is not earlier than now and
\* not later than now plus one year.
C2_OccurrenceInYear ==
    (view.op \in RecurrenceOps /\ view.ok) =>
        \A i \in Rows(view.rows) :
            /\ Ts(now) <= Occurrence(view.rows[i])
            /\ Occurrence(view.rows[i]) <= PlusOneYear(now)

\* A returned row whose occurrence is next year's, reached across the 29th
\* of February of a leap year (more than 365 days after now's midnight).
C2_Witness ==
    /\ view.op \in RecurrenceOps /\ view.ok
    /\ \E i \in Rows(view.rows) :
        /\ YearOfTs(Occurrence(view.rows[i])) = YearOf(now) + 1
        /\ Occurrence(view.rows[i]) > PlusDays(Ts(now), 365) - now.tod

\* The rows of the store the view is asked about: Active, of the department.
Selected(r) ==
    /\ r.status_funcionario = "Ativo"
    /\ view.dept_filter # "all" => r.departamento = Val(view.dept_filter)

\* The record has an occurrence (its month/day in this or the next year, on
\* a day that year has) inside [now, now + days_ahead].
OccursInWindow(r) ==
    /\ StoreSourceDate(r) # NoDate
    /\ \E y \in {YearOf(now), YearOf(now) + 1} :
        LET occ == Date(y, StoreSourceDate(r).m, StoreSourceDate(r).d)
        IN  /\ occ.d <= DaysInMonth(y, occ.m)
            /\ Ts(now) <= Ordinal(occ) * TicksPerDay
            /\ Ordinal(occ) * TicksPerDay <= PlusDays(Ts(now), view.days_ahead)

ReturnedIdx == {view.rows[i].idx : i \in Rows(view.rows)}
QualifyingIdx == {i \in Rows(store) : Selected(store[i]) /\ OccursInWindow(store[i])}

\* C3: every call of a recurrence view returns exactly the Active,
\* department-matching records that have an occurrence in the closed window
\* [now, now + days_ahead], each once.
C3_ExactWindow ==
    view.op \in RecurrenceOps =>
        /\ view.ok
        /\ ReturnedIdx = QualifyingIdx
        /\ Len(view.rows) = Cardinality(ReturnedIdx)

\* The same statement for the calls that return.
C3_ExactWindowWhenReturned ==
    (view.op \in RecurrenceOps /\ view.ok) =>
        /\ ReturnedIdx = QualifyingIdx
        /\ Len(view.rows) = Cardinality(ReturnedIdx)

\* C4: the rows a recurrence view returns are in ascending order of their
\* next-occurrence date.
C4_SortedAscending ==
    (view.op \in RecurrenceOps /\ view.ok) =>
        \A i \in 1..(Len(view.rows) - 1) :
            Occurrence(view.rows[i]) <= Occurrence(view.rows[i + 1])

\* Two rows came back in the opposite order of their positions in the store.
C4_Witness ==
    /\ view.op \in RecurrenceOps /\ view.ok
    /\ \E i \in 1..(Len(view.rows) - 1) :
        /\ Occurrence(view.rows[i]) < Occurrence(view.rows[i + 1])
        /\ view.rows[i].idx > view.rows[i + 1].idx

\* C5: every row a view returns (birthdays, anniversaries, certifications) is
\* an Active record of the store, and of the filter's department when the
\* filter is not "all"; no Terminated record is returned.
C5_ActiveAndDepartment ==
    (view.op # "none" /\ view.ok) =>
        \A i \in Rows(view.rows) :
            LET r == store[view.rows[i].idx]
            IN  /\ r.status_funcionario = "Ativo"
                /\ r.status_funcionario # "Desligado"
                /\ view.rows[i].departamento = r.departamento
                /\ view.dept_filter # "all" => r.departamento = Val(view.dept_filter)

\* A department-filtered view returned a row while the store also holds a
\* Terminated record of that department and a record of another department.
C5_Witness ==
    /\ view.op # "none" /\ view.ok /\ view.dept_filter # "all"
    /\ view.rows # <<>>
    /\ \E i \in Rows(store) :
        /\ store[i].status_funcionario = "Desligado"
        /\ store[i].departamento = Val(view.dept_filter)


\* ------------------------------------------------------------ claims: staleness view
\* C6: the rows get_outdated_certifications returns are in descending order
\* of dias_sem_treinamento, and none of them lacks a last training date.
C6_DescendingNoMissing ==
    view.op = "certifications" =>
        /\ \A i \in Rows(view.rows) :
            /\ view.rows[i].ultimo_treinamento # NoDate
            /\ ~IsNa(view.rows[i].dias_sem_treinamento)
        /\ \A i \in 1..(Len(view.rows) - 1) :
            view.rows[i].dias_sem_treinamento[1]
                >= view.rows[i + 1].dias_sem_treinamento[1]

\* The bands of the two style attributes.
BandOfColour(c) ==
    CASE c = "red" -> "critical" [] c = "orange" -> "warning" [] c = "green" -> "ok"
BandOfBackground(c) ==
    CASE c = "#ffebee" -> "critical" [] c = "#fff3e0" -> "warning"
      [] c = "#e8f5e8" -> "ok"

\* C7: in every table row the band is decided by the integer day count
\* alone: critical above 365 days, warning above 180 and up to 365, ok up to
\* 180; the cell colour and the row background show the same band; 730 days
\* is critical.
C7_SeverityBand ==
    view.page.shown =>
        \A i \in Rows(view.page.table) :
            LET d == view.page.table[i].dias
                band == BandOfColour(view.page.table[i].color)
            IN  /\ (d > 365) <=> (band = "critical")
                /\ (180 < d /\ d <= 365) <=> (band = "warning")
                /\ (d <= 180) <=> (band = "ok")
                /\ BandOfBackground(view.page.table[i].backgroundColor) = band
                /\ d = 730 => band = "critical"

\* A page shows a row of 730 days as critical and a row of another band.
C7_Witness ==
    /\ view.page.shown
    /\ \E i, j \in Rows(view.page.table) :
        /\ view.page.table[i].dias = 730
        /\ view.page.table[i].color = "red"
        /\ view.page.table[i].backgroundColor = "#ffebee"
        /\ view.page.table[j].color = "green"


\* ------------------------------------------------------------ turnover model: state space
\* Largest number of rows of a store the model is trained on.
MaxTrainRecords == 6

\* Rows of a training store: the status and the salary vary, the other
\* features are fixed.
MlRow(status, salario) ==
    [status_funcionario |-> status, departamento |-> Val("Obras"),
     idade |-> Val(40), salario |-> salario, anos_servico |-> Val(4),
     horas_treinamento_ano |-> Val(40), dias_ausencia_mes |-> Val(1),
     acidentes_trabalho |-> Val(0), uso_epi_score |-> Val(8),
     avaliacao_performance |-> Val(7)]
MlRowSpace == {MlRow(s, sal) : s \in Statuses, sal \in {NaN, Val(2000)}}

\* The store whose rows are f[1], ..., f[n], labelled by position.
MlTable(n, f) == [i \in 1..n |-> [idx |-> i] @@ f[i]]

\* One call of train_turnover_model on the store.
Train ==
    \E res \in TrainTurnoverModel(store) :
        /\ ml' = [op |-> "train", propagated |-> res.exception, y |-> res.y,
                  model |-> res.model, feature_importance |-> res.feature_importance,
                  dept_mapping |-> res.dept_mapping,
                  feature_columns |-> res.feature_columns]
        /\ store' = StoreAfter(store, TrainTurnoverModelWrites(StoreRef))
        /\ UNCHANGED <<now, view, csv>>

\* One call of predict_turnover_risk on the store.
Predict ==
    \E res \in PredictTurnoverRisk(store) :
        /\ ml' = [op |-> "predict", propagated |-> res.exception,
                  none |-> res.none, rows |-> res.rows, X |-> res.X]
        /\ store' = StoreAfter(store, PredictTurnoverRiskWrites(StoreRef))
        /\ UNCHANGED <<now, view, csv>>

InitMl ==
    /\ \E n \in 0..MaxTrainRecords :
         \E f \in [1..n -> MlRowSpace] : store = MlTable(n, f)
    /\ now = Reading(2024, 3, 1, 1)
    /\ view = NoView
    /\ ml = NoMl
    /\ csv = NoCsv

NextMl == Train

SpecMl == InitMl /\ [][NextMl]_vars

\* Scoring, over stores whose rows differ in status, and in salary among the
\* Terminated.
RiskRowSpace ==
    {MlRow(s, Val(2000)) : s \in Statuses} \cup {MlRow("Desligado", Val(4000))}

InitRisk ==
    /\ \E n \in 0..MaxTrainRecords :
         \E f \in [1..n -> RiskRowSpace] : store = MlTable(n, f)
    /\ now = Reading(2024, 3, 1, 1)
    /\ view = NoView
    /\ ml = NoMl
    /\ csv = NoCsv

NextRisk == Predict

SpecRisk == InitRisk /\ [][NextRisk]_vars

\* ------------------------------------------------------------ claims: training
Labels == {store[i].status_funcionario : i \in Rows(store)}

\* C9: training on a store whose records all carry one label returns the
\* failure value (no model).
C9_SingleLabelFails ==
    (ml.op = "train" /\ Cardinality(Labels) <= 1) => ml.model = None

\* C10: no exception leaves train_turnover_model; it returns either
\* (None, None, None, None) or four values none of which is None.
C10_NoPropagation ==
    ml.op = "train" =>
        /\ ~ml.propagated
        /\ \/ /\ ml.model = None /\ ml.feature_importance = None
              /\ ml.dept_mapping = None /\ ml.feature_columns = None
           \/ /\ ml.model # None /\ ml.feature_importance # None
              /\ ml.dept_mapping # None /\ ml.feature_columns # None

\* Training failed on a store with both labels where the split raises (a
\* label with a single member).
C10_Witness ==
    /\ ml.op = "train" /\ ml.model = None /\ ~ml.propagated
    /\ Cardinality(Labels) = 2
    /\ \E i \in Rows(store) :
        \A j \in Rows(store) \ {i} :
            store[j].status_funcionario # store[i].status_funcionario

\* Training succeeded on a store with both labels.
C10_WitnessSuccess ==
    /\ ml.op = "train" /\ ml.model # None /\ Cardinality(Labels) = 2


\* ------------------------------------------------------------ claims: risk levels
\* C8: every risk_score in [0, 1] gets exactly one level: Baixo on
\* [0, 0.25], Medio on (0.25, 0.5], Alto on (0.5, 1]; none is left without.
C8_LevelsPartition ==
    (ml.op = "predict" /\ ~ml.propagated /\ ~ml.none) =>
        \A i \in Rows(ml.rows) :
            LET sc == ml.rows[i].risk_score
                level == ml.rows[i].risk_level
            IN  (0 <= sc /\ sc <= 100) =>
                    /\ ~IsNa(level)
                    /\ (0 <= sc /\ sc <= 25) <=> (level = Val("Baixo"))
                    /\ (25 < sc /\ sc <= 50) <=> (level = Val("Médio"))
                    /\ (50 < sc /\ sc <= 100) <=> (level = Val("Alto"))

\* The same statement with the lower end left out: Baixo on (0, 0.25].
C8_LevelsAboveZero ==
    (ml.op = "predict" /\ ~ml.propagated /\ ~ml.none) =>
        \A i \in Rows(ml.rows) :
            LET sc == ml.rows[i].risk_score
                level == ml.rows[i].risk_level
            IN  (0 < sc /\ sc <= 100) =>
                    /\ ~IsNa(level)
                    /\ (0 < sc /\ sc <= 25) <=> (level = Val("Baixo"))
                    /\ (25 < sc /\ sc <= 50) <=> (level = Val("Médio"))
                    /\ (50 < sc /\ sc <= 100) <=> (level = Val("Alto"))


\* ------------------------------------------------------------ claims: scoring
\* C11: predict_turnover_risk never aborts its caller with an exception: it
\* returns the scored Active records or (None, None), also for a store with
\* no Terminated record or with no Active record.
C11_NeverAborts ==
    ml.op = "predict" => ~ml.propagated

\* The row labels of the Active records of the store, in store order.
ActiveIdx == SelectSeq([i \in Rows(store) |-> i],
                       LAMBDA i : store[i].status_funcionario = "Ativo")

\* The largest salary among the Active records of the store.
MaxActiveSalary ==
    CHOOSE m \in {store[i].salario[1] : i \in Rows(store)} :
        /\ \E i \in Rows(store) :
              store[i].status_funcionario = "Ativo" /\ store[i].salario[1] = m
        /\ \A i \in Rows(store) :
              store[i].status_funcionario = "Ativo" => store[i].salario[1] <= m

MaxFeatRecords == 3

\* Rows that differ in status, department and salary; a department, a
\* salary or the training hours may be missing, a salary may be 0, and a
\* status may be a label other than the two the load writes.
FeatRow(status, dept, salario) ==
    [MlRow(status, salario) EXCEPT !.departamento = dept]
FeatRowSpace ==
    { FeatRow("Ativo", Val("Obras"), Val(1000)),
      FeatRow("Ativo", Val("Engenharia"), Val(2000)),
      FeatRow("Desligado", Val("Obras"), Val(4000)),
      FeatRow("Desligado", NaN, NaN),
      FeatRow("Ativo", Val("Engenharia"), Val(0)),
      FeatRow("Ativo", Val("Obras"), NaN),
      FeatRow("Afastado", Val("Engenharia"), Val(2000)),
      [FeatRow("Ativo", Val("Engenharia"), Val(1000))
           EXCEPT !.horas_treinamento_ano = NaN] }

\* One call of prepare_ml_features on the store.
Prepare ==
    LET res == PrepareMlFeatures(store)
    IN  /\ ml' = [op |-> "prepare", ml_df |-> res.ml_df,
                  feature_columns |-> res.feature_columns,
                  dept_mapping |-> res.dept_mapping]
        /\ store' = StoreAfter(store, PrepareMlFeaturesWrites(StoreRef))
        /\ UNCHANGED <<now, view, csv>>

InitFeat ==
    /\ \E n \in 0..MaxFeatRecords :
         \E f \in [1..n -> FeatRowSpace] : store = MlTable(n, f)
    /\ now = Reading(2024, 3, 1, 1)
    /\ view = NoView
    /\ ml = NoMl
    /\ csv = NoCsv

NextFeat == Prepare \/ Train

SpecFeat == InitFeat /\ [][NextFeat]_vars

\* ------------------------------------------------------------ claims: feature table
\* C13: for a non-empty store, the table prepare_ml_features returns has no
\* missing value in any of the nine feature columns.
C13_NoMissingFeature ==
    (ml.op = "prepare" /\ Len(store) > 0) =>
        \A i \in Rows(ml.ml_df) : \A c \in FeatureNames : ~IsNa(ml.ml_df[i].x[c])

\* The same, for stores where some salary is present and above zero and
\* some number of training hours is present (the other columns of these
\* stores always hold a value).
C13_NoMissingWhenSomeValue ==
    (/\ ml.op = "prepare"
     /\ \E i \in Rows(store) : ~IsNa(store[i].salario) /\ store[i].salario[1] > 0
     /\ \E i \in Rows(store) : ~IsNa(store[i].horas_treinamento_ano)) =>
        \A i \in Rows(ml.ml_df) : \A c \in FeatureNames : ~IsNa(ml.ml_df[i].x[c])

\* The departments of the store, and the first row that holds a department.
Encountered == {store[i].departamento : i \in Rows(store)}
FirstSeen(dept) ==
    CHOOSE i \in Rows(store) :
        /\ store[i].departamento = dept
        /\ \A j \in 1..(i - 1) : store[j].departamento # dept

\* C14: the department mapping is a bijection between the departments of
\* the batch and the codes 0, 1, ..., k-1, handed out in first-seen order,
\* and every row's departamento_encoded is the code of its department.
C14_DepartmentBijection ==
    ml.op = "prepare" =>
        LET map == ml.dept_mapping
        IN  /\ {map[k] : k \in DOMAIN map} = Encountered
            /\ Len(map) = Cardinality(Encountered)
            /\ \A j, k \in DOMAIN map : map[j] = map[k] => j = k
            /\ \A j, k \in DOMAIN map :
                 j < k => FirstSeen(map[j]) < FirstSeen(map[k])
            /\ \A i \in Rows(store) : \A k \in DOMAIN map :
                 /\ map[k] = store[i].departamento
                      => ml.ml_df[i].x["departamento_encoded"] = Val(Rat(k - 1, 1))
                 /\ map[k] # store[i].departamento
                      => ml.ml_df[i].x["departamento_encoded"] # Val(Rat(k - 1, 1))

\* Three rows of two departments, the second department seen on the second
\* row: codes 0, 1, 0.
C14_Witness ==
    /\ ml.op = "prepare" /\ Len(store) = 3
    /\ store[1].departamento = Val("Obras")
    /\ store[2].departamento = Val("Engenharia")
    /\ store[3].departamento = Val("Obras")
    /\ ml.ml_df[1].x["departamento_encoded"] = Val(<<0, 1>>)
    /\ ml.ml_df[2].x["departamento_encoded"] = Val(<<1, 1>>)
    /\ ml.ml_df[3].x["departamento_encoded"] = Val(<<0, 1>>)

\* The largest salary of the store (0 when no salary is present).
MaxSalary ==
    LET present == {store[i].salario[1] : i \in {j \in Rows(store) : ~IsNa(store[j].salario)}}
    IN  IF present = {} THEN 0
        ELSE CHOOSE m \in present : \A v \in present : v <= m

\* C15: every salary is divided by the largest salary of the batch: the
\* largest maps to 1 and every positive salary into (0, 1].
C15_SalaryByBatchMax ==
    ml.op = "prepare" =>
        \A i \in Rows(store) :
            (~IsNa(store[i].salario) /\ MaxSalary > 0) =>
                LET v == ml.ml_df[i].x["salario_normalizado"]
                IN  /\ v = Val(Rat(store[i].salario[1], MaxSalary))
                    /\ store[i].salario[1] = MaxSalary => v = Val(<<1, 1>>)
                    /\ store[i].salario[1] > 0 =>
                         /\ 0 < v[1][1]
                         /\ RatLe(v[1], <<1, 1>>)

\* Salaries 1000, 2000, 4000 in one batch give 0.25, 0.5, 1.
C15_Witness ==
    /\ ml.op = "prepare" /\ Len(store) = 3
    /\ store[1].salario = Val(1000)
    /\ store[2].salario = Val(2000)
    /\ store[3].salario = Val(4000)
    /\ ml.ml_df[1].x["salario_normalizado"] = Val(<<1, 4>>)
    /\ ml.ml_df[2].x["salario_normalizado"] = Val(<<1, 2>>)
    /\ ml.ml_df[3].x["salario_normalizado"] = Val(<<1, 1>>)

\* Salary 1000 in a batch whose largest salary is 2000 gives 0.5.
C15_WitnessOtherBatch ==
    /\ ml.op = "prepare" /\ Len(store) = 2
    /\ store[1].salario = Val(1000)
    /\ store[2].salario = Val(2000)
    /\ ml.ml_df[1].x["salario_normalizado"] = Val(<<1, 2>>)

\* The labels the claim gives the records of the store.
StoreLabels ==
    [i \in Rows(store) |-> IF store[i].status_funcionario = "Desligado" THEN 1 ELSE 0]

\* C20: in the feature table the label of a record is 1 if its status is
\* Desligado and 0 otherwise, and training works on the labels of the whole
\* store, Active and Terminated.
C20_TargetIsTerminated ==
    /\ ml.op = "prepare" =>
         [i \in Rows(ml.ml_df) |-> ml.ml_df[i].target] = StoreLabels
    /\ ml.op = "train" => ml.y = StoreLabels

\* Training worked on a store with an Active, a Terminated and a record of
\* another status: labels 0, 1, 0.
C20_Witness ==
    /\ ml.op = "train" /\ Len(store) = 3
    /\ store[1].status_funcionario = "Ativo"
    /\ store[2].status_funcionario = "Desligado"
    /\ store[3].status_funcionario = "Afastado"
    /\ ml.y = <<0, 1, 0>>

\* ------------------------------------------------------------ module-level load
\* A date cell of the CSV: empty, the text of a date in the form
\* YYYY-MM-DD, or some other text.  A number cell: empty, the text of a
\* number, or some other text.
DateText(kind, date) == [kind |-> kind, date |-> date]
NumberText(kind, value) == [kind |-> kind, value |-> value]
EmptyDate == DateText("empty", NoDate)
BadDate == DateText("bad", NoDate)
GoodDate(y, m, d) == DateText("date", Date(y, m, d))
EmptyNumber == NumberText("empty", 0)
BadNumber == NumberText("bad", 0)
GoodNumber(v) == NumberText("number", v)

date_columns ==
    {"data_admissao", "data_nascimento", "data_demissao", "ultimo_treinamento"}
numeric_columns ==
    {"salario", "horas_treinamento_ano", "dias_ausencia_mes",
     "acidentes_trabalho", "uso_epi_score", "avaliacao_performance"}

\* pd.to_datetime(column, format = "%Y-%m-%d"), errors left at "raise":
\* whether the cell makes it raise, and the cell it gives otherwise.
ToDatetimeRaises(cell) ==
    cell.kind = "bad" \/ (cell.kind = "date" /\ ~Parses(cell.date))
ToDatetimeFormat(cell) == IF cell.kind = "date" THEN cell.date ELSE NoDate

\* pd.to_numeric(column, errors = "coerce")
ToNumeric(cell) == IF cell.kind = "number" THEN Val(cell.value) ELSE NaN

\* df.loc[data_demissao.notna(), status] = "Desligado", then
\* status.fillna("Ativo")
LoadedStatus(status, data_demissao) ==
    IF data_demissao # NoDate THEN "Desligado"
    ELSE IF IsNa(status) THEN "Ativo"
    ELSE status[1]

\* The module-level load of the rows read_csv gave: the exception
\* pd.to_datetime raises, or the store.
Load(rows, today) ==
    IF \E i \in Rows(rows) : \E c \in date_columns : ToDatetimeRaises(rows[i][c])
    THEN [ok |-> FALSE, df |-> <<>>]
    ELSE [ok |-> TRUE,
          df |-> [i \in Rows(rows) |->
                    [c \in date_columns |-> ToDatetimeFormat(rows[i][c])]
                    @@ [c \in numeric_columns |-> ToNumeric(rows[i][c])]
                    @@ [idx |-> i,
                        departamento |-> rows[i].departamento,
                        certificacoes_seguranca |-> rows[i].certificacoes_seguranca,
                        status_funcionario |->
                            LoadedStatus(rows[i].status_funcionario,
                                         ToDatetimeFormat(rows[i].data_demissao)),
                        idade |->
                            Idade(today, ToDatetimeFormat(rows[i].data_nascimento)),
                        anos_servico |->
                            AnosServico(today, ToDatetimeFormat(rows[i].data_admissao))]]]

\* Largest number of rows of a CSV file.
MaxCsvRows == 2

\* Rows of the CSV: status label, termination date, birth date and salary
\* vary, the other cells are well-formed.
CsvRow(status, data_demissao, data_nascimento, salario) ==
    [status_funcionario |-> status, departamento |-> Val("Obras"),
     certificacoes_seguranca |-> Val("NR-35"),
     data_demissao |-> data_demissao, data_nascimento |-> data_nascimento,
     data_admissao |-> GoodDate(2015, 1, 5),
     ultimo_treinamento |-> GoodDate(2022, 1, 1),
     salario |-> salario, horas_treinamento_ano |-> GoodNumber(40),
     dias_ausencia_mes |-> GoodNumber(1), acidentes_trabalho |-> GoodNumber(0),
     uso_epi_score |-> GoodNumber(8), avaliacao_performance |-> GoodNumber(7)]
CsvRowSpace ==
    { CsvRow(Val("Ativo"), EmptyDate, GoodDate(1990, 3, 15), GoodNumber(2000)),
      CsvRow(Val("Ativo"), GoodDate(2023, 5, 10), GoodDate(1990, 3, 15), GoodNumber(2000)),
      CsvRow(Val("Desligado"), EmptyDate, GoodDate(1990, 3, 15), GoodNumber(2000)),
      CsvRow(NaN, EmptyDate, GoodDate(1990, 3, 15), GoodNumber(2000)),
      CsvRow(Val("Afastado"), EmptyDate, GoodDate(1990, 3, 15), GoodNumber(2000)),
      CsvRow(Val("Ativo"), EmptyDate, BadDate, GoodNumber(2000)),
      CsvRow(Val("Ativo"), EmptyDate, GoodDate(1990, 3, 15), BadNumber),
      CsvRow(Val("Desligado"), BadDate, GoodDate(1990, 3, 15), GoodNumber(2000)),
      CsvRow(Val("Ativo"), EmptyDate, EmptyDate, EmptyNumber) }

\* Readings of the clock at the load and at later requests: two before
\* and one after the birthday of the rows (15 March).
ClockNows ==
    { Reading(2024, 3, 1, 1), Reading(2024, 3, 10, 1), Reading(2024, 3, 20, 1) }

\* The module-level code after read_csv.
LoadStore ==
    /\ csv.phase = "read"
    /\ LET res == Load(csv.rows, now)
       IN  /\ store' = res.df
           /\ csv' = [csv EXCEPT !.phase = IF res.ok THEN "loaded" ELSE "failed"]
    /\ UNCHANGED <<now, view, ml>>

InitLoad ==
    /\ \E n \in 0..MaxCsvRows :
         \E f \in [1..n -> CsvRowSpace] : csv = [rows |-> f, phase |-> "read"]
    /\ store = <<>>
    /\ now \in ClockNows
    /\ view = NoView
    /\ ml = NoMl

NextLoad == LoadStore

SpecLoad == InitLoad /\ [][NextLoad]_vars

\* ------------------------------------------------------------ claims: load
\* C16: after the load, a record is Desligado if and only if it has a
\* termination date, and Ativo otherwise, whatever label its row carried.
C16_StatusFromTerminationDate ==
    csv.phase = "loaded" =>
        \A i \in Rows(store) :
            /\ store[i].status_funcionario = "Desligado"
                 <=> store[i].data_demissao # NoDate
            /\ store[i].data_demissao = NoDate
                 => store[i].status_funcionario = "Ativo"

\* What the load does give: Desligado whenever a termination date is
\* present, and Ativo when neither a date nor a label is.
C16_StatusWhenDateOrNoLabel ==
    csv.phase = "loaded" =>
        \A i \in Rows(store) :
            /\ store[i].data_demissao # NoDate
                 => store[i].status_funcionario = "Desligado"
            /\ (store[i].data_demissao = NoDate /\ IsNa(csv.rows[i].status_funcionario))
                 => store[i].status_funcionario = "Ativo"

\* C18: the load never fails as a whole because of a malformed cell: a date
\* or a number that does not parse becomes a missing cell, and every other
\* cell of the date and numeric columns is loaded with its value.
C18_MalformedCellCoerced ==
    csv.phase # "read" =>
        /\ csv.phase = "loaded"
        /\ Len(store) = Len(csv.rows)
        /\ \A i \in Rows(store) :
            /\ \A c \in date_columns :
                 store[i][c] = IF csv.rows[i][c].kind = "date"
                               THEN csv.rows[i][c].date ELSE NoDate
            /\ \A c \in numeric_columns :
                 store[i][c] = IF csv.rows[i][c].kind = "number"
                               THEN Val(csv.rows[i][c].value) ELSE NaN

\* What the load does give: whenever no date cell is malformed it
\* succeeds, and a malformed number is a missing cell.
C18_NumbersCoerced ==
    /\ (csv.phase # "read" /\ \A i \in Rows(csv.rows) : \A c \in date_columns :
                                  csv.rows[i][c].kind # "bad")
         => csv.phase = "loaded"
    /\ csv.phase = "loaded" =>
         \A i \in Rows(store) : \A c \in numeric_columns :
             store[i][c] = IF csv.rows[i][c].kind = "number"
                           THEN Val(csv.rows[i][c].value) ELSE NaN

\* ------------------------------------------------------------ claims: days until
\* C19: the days-until value shown for a recurrence row is (next occurrence
\* - now) in whole days rounded down, now being the reading of the clock
\* the row was selected with.
C19_DaysUntilFromAnchor ==
    (view.op \in RecurrenceOps /\ view.page.shown) =>
        \A i \in Rows(view.rows) :
            view.page.table[i].dias = DaysBetween(Occurrence(view.rows[i]), Ts(now))

\* What the table does show: never more than that value, and one less when
\* the clock has passed a day boundary of the difference in between.
C19_DaysUntilAtMostAnchor ==
    (view.op \in RecurrenceOps /\ view.page.shown) =>
        \A i \in Rows(view.rows) :
            LET d == DaysBetween(Occurrence(view.rows[i]), Ts(now))
            IN  view.page.table[i].dias \in {d - 1, d}

\* ------------------------------------------------------------ every operation on one store
\* Largest number of rows of a store every operation is called on.
MaxFrameRecords == 2

\* Rows that carry every column the operations read; status and department
\* vary.
FrameRowSpace ==
    { FeatRow(s, Val(d), Val(2000)) @@ DefaultDates @@ DefaultCert
        : s \in Statuses, d \in Departments }

\* Status filters the callers ask for.
StatusFilters == {"all", "Ativo", "Desligado"}

\* One call of get_filtered_data on the store.
FilteredData ==
    \E dept_filter \in DeptFilters, status_filter \in StatusFilters :
        /\ view' = [op |-> "filtered", days_ahead |-> 0,
                    dept_filter |-> dept_filter, status_filter |-> status_filter,
                    ok |-> TRUE,
                    rows |-> GetFilteredData(store, dept_filter, status_filter),
                    page |-> NoPage]
        /\ store' = StoreAfter(store, GetFilteredDataWrites(StoreRef))
        /\ UNCHANGED <<now, ml, csv>>

InitFrame ==
    /\ \E n \in 0..MaxFrameRecords :
         \E f \in [1..n -> FrameRowSpace] : store = MlTable(n, f)
    /\ now = Reading(2024, 3, 1, 1)
    /\ view = NoView
    /\ ml = NoMl
    /\ csv = NoCsv

NextFrame ==
    \/ FilteredData
    \/ UpcomingBirthdays
    \/ WorkAnniversaries
    \/ OutdatedCertifications
    \/ Prepare
    \/ Train
    \/ Predict

SpecFrame == InitFrame /\ [][NextFrame]_vars

\* ------------------------------------------------------------ claims: the store is not mutated
\* C17: no operation changes the store it is given: after every call the
\* store has the rows, the columns and the values it had before.
C17_StoreNotMutated == [][store' = store]_vars

\* A view helper and a model operation have both been called on a store
\* that has rows.
C17_Witness ==
    /\ Len(store) > 0
    /\ view.op \in {"filtered", "birthdays", "anniversaries", "certifications"}
    /\ ml.op \in {"prepare", "train", "predict"}

C21_CertificationNotMissing ==
    (view.op = "certifications" /\ view.ok) =>
        \A i \in Rows(view.rows) : ~IsNa(view.rows[i].certificacoes_seguranca)

\* ------------------------------------------------------------ load, then requests as the clock advances
\* Largest number of rows of a CSV file that is loaded and then viewed.
MaxClockRows == 1

\* Time passes between requests; the page of the last request is gone.
Advance ==
    /\ \E later \in ClockNows : Ts(later) > Ts(now) /\ now' = later
    /\ view' = NoView
    /\ UNCHANGED <<store, ml, csv>>

InitClock ==
    /\ \E n \in 0..MaxClockRows :
         \E f \in [1..n -> CsvRowSpace] : csv = [rows |-> f, phase |-> "read"]
    /\ store = <<>>
    /\ now \in ClockNows
    /\ view = NoView
    /\ ml = NoMl

NextClock == LoadStore \/ Advance \/ UpcomingBirthdays \/ WorkAnniversaries

SpecClock == InitClock /\ [][NextClock]_vars

\* ------------------------------------------------------------ claims: derived values and the clock
\* C22: the age and the years of service a view attaches to a record are
\* the values derived from its birth and hire date and the clock at the
\* request, not the values of the time the store was loaded.
C22_DerivedFollowClock ==
    /\ (view.op = "birthdays" /\ view.ok) =>
         \A i \in Rows(view.rows) :
             view.rows[i].idade = Idade(now, view.rows[i].data_nascimento)
    /\ (view.op = "anniversaries" /\ view.ok) =>
         \A i \in Rows(view.rows) :
             view.rows[i].anos_servico = AnosServico(now, view.rows[i].data_admissao)

\* What the views do attach: the columns of the store, as the load left
\* them.
C22_DerivedAsStored ==
    /\ (view.op = "birthdays" /\ view.ok) =>
         \A i \in Rows(view.rows) :
             view.rows[i].idade = store[view.rows[i].idx].idade
    /\ (view.op = "anniversaries" /\ view.ok) =>
         \A i \in Rows(view.rows) :
             view.rows[i].anos_servico = store[view.rows[i].idx].anos_servico

\* ------------------------------------------------------------ claims: age
\* The number of full calendar years from born to today: one more from the
\* anniversary of born on.
CalendarAge(today, born) ==
    today.y - born.y
      - (IF today.m < born.m \/ (today.m = born.m /\ today.d < born.d) THEN 1 ELSE 0)

\* C23: the age derived at load is the number of full calendar years
\* between the birth date and now; it grows by one on the birthday and not
\* before.
C23_AgeInCalendarYears ==
    csv.phase = "loaded" =>
        \A i \in Rows(store) :
            store[i].data_nascimento # NoDate =>
                store[i].idade = Val(CalendarAge(now.date, store[i].data_nascimento))

\* What the load does derive: the whole days since birth, divided by 365
\* and rounded down.
C23_AgeInDaysOver365 ==
    csv.phase = "loaded" =>
        \A i \in Rows(store) :
            store[i].data_nascimento # NoDate =>
                LET days == Ordinal(now.date) - Ordinal(store[i].data_nascimento)
                IN  /\ store[i].idade[1] * 365 <= days
                    /\ days < (store[i].idade[1] + 1) * 365

\* ------------------------------------------------------------ claims: staleness ties
\* C24: in the staleness ranking, records with the same number of days
\* since training keep the relative order they have in the input.
C24_TiesInInputOrder ==
    (view.op = "certifications" /\ view.ok) =>
        \A i, j \in Rows(view.rows) :
            (i < j /\ view.rows[i].dias_sem_treinamento
                        = view.rows[j].dias_sem_treinamento)
                => view.rows[i].idx < view.rows[j].idx

\* ------------------------------------------------------------ claims: imputation
\* The store column a feature column is derived from, and the number its
\* cells are divided by: 100 for the age, the largest present value of the
\* column for salary and tenure, 1 for the columns taken as they are.
SourceColumn(c) ==
    CASE c = "idade_normalizada" -> "idade"
      [] c = "salario_normalizado" -> "salario"
      [] c = "anos_servico_normalizado" -> "anos_servico"
      [] OTHER -> c
Holding(name) == {i \in Rows(store) : ~IsNa(store[i][name])}
Largest(name) ==
    IF Holding(name) = {} THEN 0
    ELSE LET values == {store[i][name][1] : i \in Holding(name)}
         IN  CHOOSE m \in values : \A v \in values : v <= m
Scale(c) ==
    CASE c = "idade_normalizada" -> 100
      [] c = "salario_normalizado" -> Largest("salario")
      [] c = "anos_servico_normalizado" -> Largest("anos_servico")
      [] OTHER -> 1

\* The sum of the present cells of a store column.
RECURSIVE SumOver(_, _)
SumOver(name, rows) ==
    IF rows = {} THEN 0
    ELSE LET i == CHOOSE j \in rows : TRUE
         IN  store[i][name][1] + SumOver(name, rows \ {i})

\* C25: in every feature column derived from a number, a cell whose value
\* is present is that value (divided by the scale of the column) and is not
\* touched by the imputation; a missing cell beside present ones is the
\* mean of the present ones, where for the normalised columns the largest
\* value and the mean are taken over the present raw values only.  The
\* department code is never missing and is left as encoded.
C25_MeanOfPresent ==
    ml.op = "prepare" =>
        \A i \in Rows(store) :
            /\ ml.ml_df[i].x["departamento_encoded"]
                 = DeptCode(ml.dept_mapping, store[i].departamento)
            /\ \A c \in FeatureNames \ {"departamento_encoded"} :
                LET name == SourceColumn(c)
                    sum == SumOver(name, Holding(name))
                    count == Cardinality(Holding(name))
                IN  (Scale(c) > 0 /\ count > 0) =>
                        ml.ml_df[i].x[c] =
                            IF i \in Holding(name)
                            THEN Val(Rat(store[i][name][1], Scale(c)))
                            ELSE Val(Rat(sum, count * Scale(c)))

\* Salaries 1000, 2000 and a missing one: 0.5, 1 and their mean 0.75; and a
\* missing number of training hours beside two of 40 becomes 40.
C25_Witness ==
    /\ ml.op = "prepare" /\ Len(store) = 3
    /\ store[1].salario = Val(1000)
    /\ store[2].salario = Val(2000)
    /\ store[3].salario = NaN
    /\ ml.ml_df[1].x["salario_normalizado"] = Val(<<1, 2>>)
    /\ ml.ml_df[2].x["salario_normalizado"] = Val(<<1, 1>>)
    /\ ml.ml_df[3].x["salario_normalizado"] = Val(<<3, 4>>)

\* A missing number of training hours beside present ones is their mean.
C25_WitnessPlainColumn ==
    /\ ml.op = "prepare" /\ Len(store) = 3
    /\ store[1].horas_treinamento_ano = NaN
    /\ store[2].horas_treinamento_ano = Val(40)
    /\ ml.ml_df[1].x["horas_treinamento_ano"] = Val(<<40, 1>>)

\* ------------------------------------------------------------ claims: one computation, two dates
\* The store with every birth date replaced by the hire date of the row, and
\* the other way round.
HireAsBirth ==
    [i \in Rows(store) |-> [store[i] EXCEPT !.data_nascimento = store[i].data_admissao]]
BirthAsHire ==
    [i \in Rows(store) |-> [store[i] EXCEPT !.data_admissao = store[i].data_nascimento]]

\* The records of a result and their occurrence dates, in order.
Occurrences(rows, column) ==
    [i \in Rows(rows) |-> [idx |-> rows[i].idx, occurrence |-> rows[i][column]]]

\* C26: what get_work_anniversaries gives for a store, now, days_ahead and
\* department filter is an outcome of get_upcoming_birthdays on the store
\* whose birth dates are replaced by the hire dates (the same records, in
\* the same order, with the same occurrence dates, or a failure for a
\* failure), and the other way round.
C26_SameComputation ==
    /\ view.op = "anniversaries" =>
         \E res \in GetUpcomingBirthdays(HireAsBirth, now, view.days_ahead,
                                         view.dept_filter) :
            /\ res.ok = view.ok
            /\ Occurrences(res.rows, "birthday_this_year")
                 = Occurrences(view.rows, "anniversary_this_year")
    /\ view.op = "birthdays" =>
         \E res \in GetWorkAnniversaries(BirthAsHire, now, view.days_ahead,
                                         view.dept_filter) :
            /\ res.ok = view.ok
            /\ Occurrences(res.rows, "anniversary_this_year")
                 = Occurrences(view.rows, "birthday_this_year")

\* The anniversary view lists two records whose hire dates differ from
\* their birth dates, the second record of the store first.
C26_Witness ==
    /\ view.op = "anniversaries" /\ view.ok /\ Len(view.rows) = 2
    /\ view.rows[1].idx = 2 /\ view.rows[2].idx = 1
    /\ \A i \in Rows(store) : store[i].data_admissao # store[i].data_nascimento

\* The anniversary view fails on a store on which the birthday view of the
\* same now, window and filter would list a record.
C26_WitnessRaised ==
    /\ view.op = "anniversaries" /\ ~view.ok
    /\ \E res \in GetUpcomingBirthdays(store, now, view.days_ahead, view.dept_filter) :
          res.ok /\ Len(res.rows) > 0

\* ------------------------------------------------------------ claims: failures of the recurrence views
\* The record is dated 29 February.
LeapDay(r) == StoreSourceDate(r).m = 2 /\ StoreSourceDate(r).d = 29

\* C27: a recurrence view never fails on a store of valid dates, whatever
\* now is: it returns a result, and a record dated 29 February keeps no
\* other qualifying record from being listed.
C27_NeverFails ==
    view.op \in RecurrenceOps =>
        /\ view.ok
        /\ \A i \in QualifyingIdx : ~LeapDay(store[i]) => i \in ReturnedIdx

\* When a recurrence view fails, a selected record is dated 29 February and
\* this year or the next has no such day.
C27_FailsOnLeapDayOnly ==
    (view.op \in RecurrenceOps /\ ~view.ok) =>
        /\ \E i \in Rows(store) : Selected(store[i]) /\ LeapDay(store[i])
        /\ ~IsLeap(YearOf(now)) \/ ~IsLeap(YearOf(now) + 1)

\* ------------------------------------------------------------ claims: the days shown and the window
\* C28: the number of days shown for a row of the birthday or anniversary
\* table is never negative and never above days_ahead.
C28_DaysWithinWindow ==
    (view.op \in RecurrenceOps /\ view.page.shown) =>
        \A i \in Rows(view.page.table) :
            /\ view.page.table[i].dias >= 0
            /\ view.page.table[i].dias <= view.days_ahead

\* The number shown is never above days_ahead, and never below -1 when the
\* callback reads the clock at most one tick after the helper.
C28_DaysAtMostWindow ==
    (view.op \in RecurrenceOps /\ view.page.shown) =>
        \A i \in Rows(view.page.table) :
            /\ view.page.table[i].dias >= -1
            /\ view.page.table[i].dias <= view.days_ahead

\* ------------------------------------------------------------ claims: scoring as trained
\* C29: the features a record is scored on are encoded and normalised as
\* they were for training on the whole store: its department has the code
\* the training mapping gives it, and its salary and tenure are divided by
\* the maxima used at training.
C29_ScoredAsTrained ==
    (ml.op = "predict" /\ ~ml.propagated /\ ~ml.none) =>
        LET trained == PrepareMlFeatures(store)
        IN  \A i \in Rows(ml.rows) :
                LET k == ml.rows[i].idx
                IN  /\ ml.X[i]["departamento_encoded"]
                         = DeptCode(trained.dept_mapping, store[k].departamento)
                    /\ ml.X[i]["salario_normalizado"]
                         = trained.ml_df[k].x["salario_normalizado"]
                    /\ ml.X[i]["anos_servico_normalizado"]
                         = trained.ml_df[k].x["anos_servico_normalizado"]

\* ------------------------------------------------------------ claims: window and department filter
\* The outcomes of the helper of the last view for another window or filter,
\* and the name of its occurrence column.
OtherCall(days_ahead, dept_filter) ==
    IF view.op = "birthdays"
    THEN GetUpcomingBirthdays(store, now, days_ahead, dept_filter)
    ELSE GetWorkAnniversaries(store, now, days_ahead, dept_filter)
OccurrenceColumn ==
    IF view.op = "birthdays" THEN "birthday_this_year" ELSE "anniversary_this_year"

\* The rows of a result that belong to a department.
OfDepartment(rows, dept) ==
    BoolIndex(rows, [i \in Rows(rows) |-> rows[i].departamento = Val(dept)])

\* C30: for a fixed store and now, every record a recurrence view returns
\* is also returned for every wider window; the same helper called with a
\* negative days_ahead (a window of -1 day) returns the empty sequence; and
\* the result for a department is the result for "all" restricted to the
\* rows of that department.
C30_WindowAndFilter ==
    view.op \in RecurrenceOps =>
        /\ \A d2 \in DaysAheadChoices :
             (view.ok /\ d2 >= view.days_ahead) =>
                \A res \in OtherCall(d2, view.dept_filter) :
                    /\ res.ok
                    /\ ReturnedIdx \subseteq {res.rows[i].idx : i \in Rows(res.rows)}
        /\ \A res \in OtherCall(-1, view.dept_filter) : res.ok /\ res.rows = <<>>
        /\ view.dept_filter # "all" =>
             \E res \in OtherCall(view.days_ahead, "all") :
                /\ res.ok = view.ok
                /\ view.rows = OfDepartment(res.rows, view.dept_filter)

\* The same for the calls that do not fail: the three relations hold
\* whenever the view and the call for "all" return.
C30_WhenNothingFails ==
    (view.op \in RecurrenceOps /\ view.ok) =>
        /\ \A d2 \in DaysAheadChoices :
             d2 >= view.days_ahead =>
                \A res \in OtherCall(d2, view.dept_filter) :
                    /\ res.ok
                    /\ ReturnedIdx \subseteq {res.rows[i].idx : i \in Rows(res.rows)}
        /\ \A res \in OtherCall(-1, view.dept_filter) : res.rows = <<>>
        /\ view.dept_filter # "all" =>
             \A res \in OtherCall(view.days_ahead, "all") :
                res.ok => \E other \in OtherCall(view.days_ahead, view.dept_filter) :
                             other.rows = OfDepartment(res.rows, view.dept_filter)

=============================================================================
